---- MODULE Spec2Model ----
(***************************************************************************)
(* Prize creation modal (CreatePrizeModal.tsx), the prize service          *)
(* (prize-service.ts) and the prize list page (Prizes) as one state        *)
(* machine.  A step is one event-loop task: a user event handler run to    *)
(* its first network await, or the settlement of one network call together *)
(* with the code that runs after it up to the next network await.          *)
(***************************************************************************)
EXTENDS Integers, Sequences, FiniteSets, TLC

\* ---------------------------------------------------------------- bounds
MaxSubmits == 2          \* activations of Save explored
MaxAttach == 2           \* longest FileList handed to handleImageUpload
NumRegions == 2          \* how many entries of REGIONS the user toggles
MaxPreviews == 4         \* cap on started preview reads still accounted for
MaxEdits == 4            \* user edit events explored

\* ------------------------------------------------------- program constants
MaxImages == 4

REGIONS ==
  << "arima", "chaguanas", "couva", "diego martin", "point fortin",
     "port of spain", "princes town", "san fernando", "san juan",
     "sangre grande", "siparia", "tobago", "tunapuna" >>

Regions == { REGIONS[i] : i \in 1..NumRegions }

Files == {"a.png", "b.png"}
SponsorIds == {"s1", "s2"}
PrizeNames == {"", "TV"}

\* A text whose characters matter to the code (trim, filter(Boolean),
\* parseFloat) is the sequence of its characters.
PRIZE_CATEGORIES ==
  << << "E", "l", "e", "c", "t", "r", "o", "n", "i", "c", "s" >>,
     << "G", "i", "f", "t", " ", "C", "a", "r", "d", "s" >>,
     << "E", "x", "p", "e", "r", "i", "e", "n", "c", "e", "s" >>,
     << "F", "a", "s", "h", "i", "o", "n" >>,
     << "H", "o", "m", "e", " ", "&", " ", "G", "a", "r", "d", "e", "n" >>,
     << "S", "p", "o", "r", "t", "s", " ", "&", " ",
        "O", "u", "t", "d", "o", "o", "r", "s" >>,
     << "F", "o", "o", "d", " ", "&", " ",
        "B", "e", "v", "e", "r", "a", "g", "e" >>,
     << "T", "r", "a", "v", "e", "l" >>,
     << "O", "t", "h", "e", "r" >> >>

\* defaultValues of the fields kept in otherValues; the booleans and the
\* optional terms fields pass through onSubmit untouched and are left out
defaultOtherValues ==
  [ quantityAvailable |-> << >>, detail1 |-> << >>, detail2 |-> << >>,
    detail3 |-> << >>, fullDescription |-> "", tags |-> "",
    prizeCategory |-> << >>, stockDate |-> "", fulfillmentMethod |-> "",
    deliveryTimeline |-> "", claimWindow |-> "", retailValueUSD |-> << >>,
    ageRestriction |-> "" ]

\* those fields as a user fills them in
filledOtherValues ==
  [ quantityAvailable |-> << "3" >>, detail1 |-> << >>, detail2 |-> << >>,
    detail3 |-> << >>, fullDescription |-> "Smart TV", tags |-> "tv",
    prizeCategory |-> PRIZE_CATEGORIES[1], stockDate |-> "2025-01-01",
    fulfillmentMethod |-> "Courier", deliveryTimeline |-> "Instant",
    claimWindow |-> "1 Week", retailValueUSD |-> << "0" >>,
    ageRestriction |-> "18+" ]

\* z.string().max(...) of prizeName and fullDescription
MaxPrizeName == 200
MaxFullDescription == 2000

\* <Section number={1..6}>
NumSections == 6
Sections == 1..NumSections

defaultValues ==
  [ prizeName |-> "", sponsorId |-> "", eligibleRegions |-> "" ]

\* ------------------------------------------------------------------ state
VARIABLES
  createOpen,       \* Prizes: createOpen
  loading,          \* Prizes: loading
  prizes,           \* Prizes: prizes (rows shown)
  mounted,          \* Prizes: the mount effect has run
  fetches,          \* getPrizes() calls in flight
  nextFetch,        \* number of fetchPrizes calls started so far
  form,             \* react-hook-form values: prizeName, sponsorId,
                    \* eligibleRegions
  otherValues,      \* react-hook-form values: the other text fields
  categories,       \* CreatePrizeModal: categories
  newCategory,      \* CreatePrizeModal: newCategory
  addCalls,         \* calls of addCategory so far
  sectionOpen,      \* Section: open, per section number
  fieldErrors,      \* react-hook-form: validation messages are shown
  imageFiles,       \* CreatePrizeModal: imageFiles
  imagePreviews,    \* CreatePrizeModal: imagePreviews
  reading,          \* FileReader reads in flight (file names, start order)
  saving,           \* CreatePrizeModal: saving
  selectedRegions,  \* CreatePrizeModal: selectedRegions
  pc,               \* network call the running onSubmit is suspended on
  sub,              \* locals of the running createPrizeDocument call
  blobs,            \* storage: objects written by uploadBytes
  prize_database,   \* firestore collection prize_database
  sponsorPrizes,    \* firestore sponsors/<id>.prizesCreation
  toasts,           \* toasts shown since the last activation of Save
  calls,            \* network calls issued since the last activation of Save
  steps,            \* pipeline steps entered since the last activation of Save
  result,           \* how the last createPrizeDocument call settled
  before,           \* form, files, regions and stores when Save was last
                    \* activated
  fault,            \* first network call that failed since then
  orphans,          \* URLs resolved by submissions that then failed
  listLog,          \* how the last settled getPrizes() call ended, the fetch
                    \* whose rows are shown, the newest fetch that resolved
  dropped,          \* files the last handleImageUpload call left out
  touched,          \* the user changed the form since Save was last activated
  submits,          \* activations of Save so far
  edits             \* user edit events so far

vars ==
  << createOpen, loading, prizes, mounted, fetches, nextFetch, form,
     fieldErrors, imageFiles, imagePreviews, reading, saving,
     selectedRegions, pc, sub, blobs, prize_database, sponsorPrizes, toasts,
     calls, steps, result, before, fault, orphans, listLog, dropped,
     touched, submits, edits, otherValues, categories, newCategory,
     addCalls, sectionOpen >>

listVars == << loading, prizes, mounted, fetches, nextFetch, listLog >>
uiVars == << categories, newCategory, addCalls, sectionOpen >>
formVars == << form, otherValues, fieldErrors, imageFiles, imagePreviews,
               reading, selectedRegions, dropped, uiVars >>
storeVars == << blobs, prize_database, sponsorPrizes >>
histVars == << toasts, calls, steps, result, before, fault, orphans >>

NoCalls == [ uploadBytes |-> 0, getDownloadURL |-> 0, addDoc |-> 0,
             updateDoc |-> 0 ]
NoFault == [ call |-> "none", index |-> 0 ]
NoBefore == [ form |-> defaultValues, otherValues |-> defaultOtherValues,
             imageFiles |-> << >>,
              selectedRegions |-> << >>, docs |-> 0, blobs |-> 0,
              sponsorPrizes |-> [ s \in SponsorIds |-> {} ],
              nextFetch |-> 0 ]
NoSub == [ values |-> defaultValues, files |-> << >>, urls |-> << >>,
           id |-> 0 ]

\* ---------------------------------------------------------------- helpers
RECURSIVE join(_)
join(s) ==
  IF Len(s) = 0 THEN ""
  ELSE IF Len(s) = 1 THEN s[1]
  ELSE s[1] \o ", " \o join(Tail(s))

includes(s, x) == \E i \in 1..Len(s) : s[i] = x

RECURSIVE filterOut(_, _)
filterOut(s, x) ==
  IF Len(s) = 0 THEN << >>
  ELSE IF s[1] = x THEN filterOut(Tail(s), x)
  ELSE << s[1] >> \o filterOut(Tail(s), x)

\* prev.filter((_, i) => i !== idx), idx counted from 0
removeAt(s, idx) ==
  [ j \in 1..(IF idx < Len(s) THEN Len(s) - 1 ELSE Len(s)) |->
      IF j <= idx THEN s[j] ELSE s[j + 1] ]

\* Boolean(s) of a string s
Boolean(s) == Len(s) > 0

Min(a, b) == IF a < b THEN a ELSE b
Max(a, b) == IF a > b THEN a ELSE b

\* Array.prototype.slice(0, n) for n >= 0
slice0(s, n) == SubSeq(s, 1, Min(n, Len(s)))

Init ==
  /\ createOpen = FALSE
  /\ loading = TRUE
  /\ prizes = << >>
  /\ mounted = FALSE
  /\ fetches = {}
  /\ nextFetch = 0
  /\ form = defaultValues
  /\ otherValues = defaultOtherValues
  /\ categories = PRIZE_CATEGORIES
  /\ newCategory = << >>
  /\ addCalls = 0
  /\ sectionOpen = [ n \in Sections |-> TRUE ]
  /\ fieldErrors = FALSE
  /\ imageFiles = << >>
  /\ imagePreviews = << >>
  /\ reading = << >>
  /\ saving = FALSE
  /\ selectedRegions = << >>
  /\ pc = "idle"
  /\ sub = NoSub
  /\ blobs = << >>
  /\ prize_database = << >>
  /\ sponsorPrizes = [ s \in SponsorIds |-> {} ]
  /\ toasts = << >>
  /\ calls = NoCalls
  /\ steps = << >>
  /\ result = [ state |-> "none", id |-> 0 ]
  /\ before = NoBefore
  /\ fault = NoFault
  /\ orphans = {}
  /\ listLog = [ last |-> "none", id |-> 0, resolved |-> 0, shown |-> 0,
               newest |-> 0 ]
  /\ dropped = 0
  /\ touched = FALSE
  /\ submits = 0
  /\ edits = 0

\* ------------------------------------------------------------ list page
\* fetchPrizes up to its await: setLoading(true), getPrizes() issued
fetchPrizes ==
  /\ loading' = TRUE
  /\ nextFetch' = nextFetch + 1
  /\ fetches' = fetches \cup
       { [ id |-> nextFetch + 1, read |-> FALSE, data |-> << >> ] }

\* useEffect(() => { fetchPrizes(); }, [])
Mount ==
  /\ ~mounted
  /\ mounted' = TRUE
  /\ fetchPrizes
  /\ UNCHANGED << prizes, listLog, createOpen, formVars, saving, pc, sub, storeVars,
                  histVars, touched, submits, edits >>

\* rows getPrizes() builds from the collection
rowsOf(docs) == [ i \in 1..Len(docs) |->
                   [ id |-> docs[i].id, prizeName |-> docs[i].prizeName ] ]

\* the backend reads the collection for one getPrizes() call in flight
GetPrizesRead ==
  \E f \in fetches :
    /\ ~f.read
    /\ fetches' = (fetches \ {f}) \cup
         { [ f EXCEPT !.read = TRUE, !.data = rowsOf(prize_database) ] }
    /\ UNCHANGED << loading, prizes, mounted, nextFetch, listLog, createOpen,
                    formVars,
                    saving, pc, sub, storeVars, histVars, touched, submits,
                    edits >>

\* getPrizes() resolved: setPrizes(data.map(...)); finally setLoading(false)
GetPrizesResolve ==
  \E f \in fetches :
    /\ f.read
    /\ prizes' = f.data
    /\ loading' = FALSE
    /\ fetches' = fetches \ {f}
    /\ listLog' = [ last |-> "resolved", id |-> f.id,
                    resolved |-> listLog.resolved + 1, shown |-> f.id,
                    newest |-> Max(listLog.newest, f.id) ]
    /\ UNCHANGED << mounted, nextFetch, createOpen, formVars, saving, pc, sub,
                    storeVars, histVars, touched, submits, edits >>

\* mutant: no finally, the loading flag stays as it was
GetPrizesReject_NoFinally ==
  \E f \in fetches :
    /\ prizes' = prizes
    /\ loading' = loading
    /\ fetches' = fetches \ {f}
    /\ listLog' = [ listLog EXCEPT !.last = "rejected", !.id = f.id ]
    /\ UNCHANGED << mounted, nextFetch, createOpen, formVars, saving, pc, sub,
                    storeVars, histVars, touched, submits, edits >>

\* getPrizes() rejected: console.error; finally setLoading(false)
GetPrizesReject ==
  \E f \in fetches :
    /\ prizes' = prizes
    /\ loading' = FALSE
    /\ fetches' = fetches \ {f}
    /\ listLog' = [ listLog EXCEPT !.last = "rejected", !.id = f.id ]
    /\ UNCHANGED << mounted, nextFetch, createOpen, formVars, saving, pc, sub,
                    storeVars, histVars, touched, submits, edits >>

\* "Create New" button
OpenModal ==
  /\ mounted
  /\ ~createOpen
  /\ createOpen' = TRUE
  /\ UNCHANGED << listVars, formVars, saving, pc, sub, storeVars, histVars,
                  touched, submits, edits >>

\* Cancel button (disabled while saving) or the dialog's own dismissal
CloseModal ==
  /\ createOpen
  /\ createOpen' = FALSE
  /\ UNCHANGED << listVars, formVars, saving, pc, sub, storeVars, histVars,
                  touched, submits, edits >>

\* ------------------------------------------------------------ form edits
CanEdit == createOpen /\ edits < MaxEdits
Edited == /\ edits' = edits + 1
          /\ touched' = (submits > 0)

\* field.onChange of the prizeName input
SetPrizeName ==
  \E v \in PrizeNames :
    /\ CanEdit
    /\ sectionOpen[1]
    /\ v # form.prizeName
    /\ form' = [ form EXCEPT !.prizeName = v ]
    /\ Edited
    /\ UNCHANGED << otherValues, uiVars,
                    listVars, createOpen, fieldErrors, imageFiles,
                    imagePreviews, reading, selectedRegions, dropped, saving,
                    pc, sub, storeVars, histVars, submits >>

\* field.onChange of the sponsor select
SetSponsorId ==
  \E v \in SponsorIds :
    /\ CanEdit
    /\ sectionOpen[2]
    /\ v # form.sponsorId
    /\ form' = [ form EXCEPT !.sponsorId = v ]
    /\ Edited
    /\ UNCHANGED << otherValues, uiVars,
                    listVars, createOpen, fieldErrors, imageFiles,
                    imagePreviews, reading, selectedRegions, dropped, saving,
                    pc, sub, storeVars, histVars, submits >>

\* mutant: a newly selected region is put first
toggleRegionNext_Front(prev, region) ==
  IF includes(prev, region) THEN filterOut(prev, region)
  ELSE << region >> \o prev

\* the updater handed to setSelectedRegions
toggleRegionNext(prev, region) ==
  IF includes(prev, region) THEN filterOut(prev, region)
  ELSE Append(prev, region)

toggleRegion ==
  \E region \in Regions :
    /\ CanEdit
    /\ sectionOpen[4]
    /\ selectedRegions' = toggleRegionNext(selectedRegions, region)
    /\ form' = [ form EXCEPT
                   !.eligibleRegions =
                     join(toggleRegionNext(selectedRegions, region)) ]
    /\ Edited
    /\ UNCHANGED << otherValues, uiVars,
                    listVars, createOpen, fieldErrors, imageFiles,
                    imagePreviews, reading, dropped, saving, pc, sub,
                    storeVars, histVars, submits >>

\* what the file input hands over: e.target.files is null or a FileList
FileLists == UNION { [ 1..n -> Files ] : n \in 0..MaxAttach }
FileInputs == { [ isNull |-> TRUE, list |-> << >> ] } \cup
              { [ isNull |-> FALSE, list |-> l ] : l \in FileLists }

\* mutant: the list is not cut to the remaining slots
newFilesOf_Uncut(staged, files) == files

\* Array.from(files).slice(0, remaining)
newFilesOf(staged, files) == slice0(files, MaxImages - Len(staged))

\* the upload box is rendered
UploadBoxShown == Len(imageFiles) < MaxImages

handleImageUpload ==
  \E files \in FileInputs :
    /\ CanEdit
    /\ sectionOpen[1]
    /\ UploadBoxShown
    /\ IF files.isNull
       THEN UNCHANGED << imageFiles, reading, dropped, edits, touched >>
       ELSE /\ Len(imagePreviews) + Len(reading)
                 + Len(newFilesOf(imageFiles, files.list)) <= MaxPreviews
            /\ imageFiles' = imageFiles \o newFilesOf(imageFiles, files.list)
            /\ reading' = reading \o newFilesOf(imageFiles, files.list)
            /\ dropped' = Len(files.list)
                            - Len(newFilesOf(imageFiles, files.list))
            /\ Edited
    /\ UNCHANGED << listVars, createOpen, form, otherValues, uiVars,
                    fieldErrors, imagePreviews, selectedRegions, saving, pc, sub, storeVars, histVars,
                    submits >>

\* FileReader result for a file
dataURL(f) == "data:" \o f

\* reader.onload of one read in flight
ReaderOnload ==
  \E i \in 1..Len(reading) :
    /\ imagePreviews' = Append(imagePreviews, dataURL(reading[i]))
    /\ reading' = removeAt(reading, i - 1)
    /\ UNCHANGED << otherValues, uiVars,
                    listVars, createOpen, form, fieldErrors, imageFiles,
                    selectedRegions, dropped, saving, pc, sub, storeVars,
                    histVars, touched, submits, edits >>

\* the X button of preview idx (counted from 0)
removeImage ==
  \E idx \in 0..(Len(imagePreviews) - 1) :
    /\ CanEdit
    /\ sectionOpen[1]
    /\ imageFiles' = removeAt(imageFiles, idx)
    /\ imagePreviews' = removeAt(imagePreviews, idx)
    /\ Edited
    /\ UNCHANGED << otherValues, uiVars,
                    listVars, createOpen, form, fieldErrors, reading,
                    selectedRegions, dropped, saving, pc, sub, storeVars,
                    histVars, submits >>

\* ------------------------------------------------------------ numbers
\* A JavaScript number is an IEEE 754 double: NaN, or sign, 53-bit
\* significand m (most significant bit first, << >> for zero) and exponent e,
\* standing for m * 2^e.  Subnormals and infinities are out of reach of the
\* values a retail price takes.
Precision == 53

NaN == [ kind |-> "NaN", neg |-> FALSE, m |-> << >>, e |-> 0 ]
Zero == [ kind |-> "num", neg |-> FALSE, m |-> << >>, e |-> 0 ]

zeros(n) == [ i \in 1..n |-> 0 ]

\* Whole numbers too long for one integer are sequences of limbs, most
\* significant first.
LimbBits == 8
Limb == 256

RECURSIVE limbsOf(_)
limbsOf(n) == IF n = 0 THEN << >> ELSE Append(limbsOf(n \div Limb), n % Limb)

RECURSIVE natOf(_)
natOf(bits) ==
  IF Len(bits) = 0 THEN 0
  ELSE 2 * natOf(SubSeq(bits, 1, Len(bits) - 1)) + bits[Len(bits)]

pow2 == << 1, 2, 4, 8, 16, 32, 64, 128 >>

\* the bits of a sequence of limbs
bitsOf(limbs) ==
  [ j \in 1..(LimbBits * Len(limbs)) |->
      (limbs[((j - 1) \div LimbBits) + 1]
         \div pow2[LimbBits - ((j - 1) % LimbBits)]) % 2 ]

\* the limbs of a sequence of bits
toLimbs(bits) ==
  LET pad == (LimbBits - (Len(bits) % LimbBits)) % LimbBits
      b == zeros(pad) \o bits
  IN  [ i \in 1..(Len(b) \div LimbBits) |->
          natOf(SubSeq(b, LimbBits * (i - 1) + 1, LimbBits * i)) ]

strip(bits) ==
  IF \E i \in 1..Len(bits) : bits[i] = 1
  THEN SubSeq(bits,
              CHOOSE i \in 1..Len(bits) :
                bits[i] = 1 /\ \A j \in 1..(i - 1) : bits[j] = 0,
              Len(bits))
  ELSE << >>

anyOne(bits, from) == \E i \in from..Len(bits) : bits[i] = 1

\* bits + 1, one bit longer when the carry runs out at the top
increment(bits) ==
  IF \A i \in 1..Len(bits) : bits[i] = 1 THEN << 1 >> \o zeros(Len(bits))
  ELSE LET z == CHOOSE i \in 1..Len(bits) :
                  bits[i] = 0 /\ \A j \in (i + 1)..Len(bits) : bits[j] = 1
       IN  [ j \in 1..Len(bits) |->
               IF j < z THEN bits[j] ELSE IF j = z THEN 1 ELSE 0 ]

\* the double nearest to bits * 2^e (+ a positive rest below the last bit
\* when sticky), ties to even
roundToDouble(neg, bits, sticky, e) ==
  LET b == strip(bits)
      cut == Len(b) - Precision
      kept == SubSeq(b, 1, Precision)
      up == /\ b[Precision + 1] = 1
            /\ (sticky \/ anyOne(b, Precision + 2) \/ kept[Precision] = 1)
      r == IF up THEN increment(kept) ELSE kept
  IN  IF Len(b) = 0 THEN Zero
      ELSE IF cut <= 0
           THEN [ kind |-> "num", neg |-> neg, m |-> b \o zeros(-cut),
                  e |-> e + cut ]
      ELSE IF Len(r) > Precision
           THEN [ kind |-> "num", neg |-> neg, m |-> SubSeq(r, 1, Precision),
                  e |-> e + cut + 1 ]
      ELSE [ kind |-> "num", neg |-> neg, m |-> r, e |-> e + cut ]

\* long division of the limbs from position i on by d <= 100
RECURSIVE divideLimbs(_, _, _, _, _)
divideLimbs(limbs, i, d, rem, quotient) ==
  IF i > Len(limbs) THEN [ q |-> quotient, r |-> rem ]
  ELSE LET t == Limb * rem + limbs[i]
       IN  divideLimbs(limbs, i + 1, d, t % d, Append(quotient, t \div d))

\* limbs * k for k <= 100, from position i down
RECURSIVE multiplyLimbs(_, _, _, _, _)
multiplyLimbs(limbs, i, k, carry, product) ==
  IF i = 0 THEN limbsOf(carry) \o product
  ELSE LET t == limbs[i] * k + carry
       IN  multiplyLimbs(limbs, i - 1, k, t \div Limb,
                         << t % Limb >> \o product)

\* bits * k for k <= 100
multiplyBits(bits, k) ==
  bitsOf(multiplyLimbs(toLimbs(bits), Len(toLimbs(bits)), k, 0, << >>))

GuardLimbs == 8

\* the double nearest to n / d
quotientOf(neg, n, d) ==
  LET res == divideLimbs(limbsOf(n) \o zeros(GuardLimbs), 1, d, 0, << >>)
  IN  IF n = 0 THEN Zero
      ELSE roundToDouble(neg, bitsOf(res.q), res.r # 0,
                         -(LimbBits * GuardLimbs))

\* x * k for a number k in 1..100
times(x, k) ==
  IF x.kind = "NaN" THEN NaN
  ELSE roundToDouble(x.neg, multiplyBits(x.m, k), FALSE, x.e)

\* x * 0.25
timesQuarter(x) ==
  IF x.kind = "NaN" \/ Len(x.m) = 0 THEN x ELSE [ x EXCEPT !.e = @ - 2 ]

\* the bits of m * 2^e before (whole) and after (part) the binary point
whole(m, e) ==
  IF e >= 0 THEN m \o zeros(e)
  ELSE IF -e >= Len(m) THEN << >>
  ELSE SubSeq(m, 1, Len(m) + e)

part(m, e) ==
  IF e >= 0 THEN << >>
  ELSE IF -e >= Len(m) THEN zeros(-e - Len(m)) \o m
  ELSE SubSeq(m, Len(m) + e + 1, Len(m))

\* Math.round(x) as an integer: the nearest integer, a half goes up
MathRound(x) ==
  LET w == natOf(whole(x.m, x.e))
      p == part(x.m, x.e)
      half == Len(p) > 0 /\ p[1] = 1
  IN  IF ~x.neg THEN w + (IF half THEN 1 ELSE 0)
      ELSE -(w + (IF half /\ anyOne(p, 2) THEN 1 ELSE 0))

DigitChars == << "0", "1", "2", "3", "4", "5", "6", "7", "8", "9" >>

isDigit(c) == \E d \in 1..10 : DigitChars[d] = c
digitOf(c) == (CHOOSE d \in 1..10 : DigitChars[d] = c) - 1

RECURSIVE decimalOf(_)
decimalOf(digits) ==
  IF Len(digits) = 0 THEN 0
  ELSE 10 * decimalOf(SubSeq(digits, 1, Len(digits) - 1))
         + digitOf(digits[Len(digits)])

RECURSIVE charsOf(_)
charsOf(n) ==
  IF n < 10 THEN << DigitChars[n + 1] >>
  ELSE Append(charsOf(n \div 10), DigitChars[(n % 10) + 1])

RECURSIVE pow10(_)
pow10(n) == IF n = 0 THEN 1 ELSE 10 * pow10(n - 1)

\* the parts of a decimal text [-]digits[.digits]
unsignedOf(text) ==
  IF Len(text) > 0 /\ text[1] = "-" THEN Tail(text) ELSE text

pointOf(text) ==
  IF \E i \in 1..Len(text) : text[i] = "."
  THEN CHOOSE i \in 1..Len(text) : text[i] = "."
  ELSE Len(text) + 1

isDecimal(text) ==
  LET u == unsignedOf(text)
  IN  /\ \E i \in 1..Len(u) : isDigit(u[i])
      /\ \A i \in 1..Len(u) : isDigit(u[i]) \/ i = pointOf(u)

\* parseFloat of a text the number input lets through: NaN for the empty
\* text, else the double nearest to the decimal it spells
parseFloat(text) ==
  LET u == unsignedOf(text)
      p == pointOf(u)
      fraction == SubSeq(u, p + 1, Len(u))
  IN  IF ~isDecimal(text) THEN NaN
      ELSE quotientOf(Len(text) > 0 /\ text[1] = "-",
                      decimalOf(SubSeq(u, 1, p - 1) \o fraction),
                      pow10(Len(fraction)))

\* Math.round(parseFloat(retailValueUSD) * 0.25 * 100) / 100
breakEvenOf(retailValueUSD) ==
  LET scaled == times(timesQuarter(parseFloat(retailValueUSD)), 100)
  IN  IF scaled.kind = "NaN" THEN NaN
      ELSE quotientOf(MathRound(scaled) < 0,
                      IF MathRound(scaled) < 0 THEN -MathRound(scaled)
                      ELSE MathRound(scaled),
                      100)

\* Number.prototype.toFixed(2): the decimal n / 100 nearest to the exact
\* value of x, the larger n on a tie
toFixed2(x) ==
  LET n == MathRound([ kind |-> "num", neg |-> FALSE,
                       m |-> multiplyBits(x.m, 100),
                       e |-> x.e ])
      cents == << DigitChars[((n % 100) \div 10) + 1],
                  DigitChars[(n % 10) + 1] >>
  IN  IF x.kind = "NaN" THEN << "N", "a", "N" >>
      ELSE (IF x.neg /\ n > 0 THEN << "-" >> ELSE << >>)
             \o charsOf(n \div 100) \o << "." >> \o cents

\* the read-only break-even field: retailValue ? (...).toFixed(2) : "0.00"
breakEvenPreview(retailValue) ==
  IF Boolean(retailValue) THEN toFixed2(breakEvenOf(retailValue))
  ELSE << "0", ".", "0", "0" >>

\* ------------------------------------------------------------ categories
WhiteSpace == { " ", "\t" }

RECURSIVE trimStart(_)
trimStart(s) ==
  IF Len(s) > 0 /\ s[1] \in WhiteSpace THEN trimStart(Tail(s)) ELSE s

RECURSIVE trimEnd(_)
trimEnd(s) ==
  IF Len(s) > 0 /\ s[Len(s)] \in WhiteSpace
  THEN trimEnd(SubSeq(s, 1, Len(s) - 1))
  ELSE s

\* String.prototype.trim
trim(s) == trimEnd(trimStart(s))

Toys == << "T", "o", "y", "s" >>

\* texts the user leaves in the new-category input
CategoryTexts ==
  { << >>, << " " >>, << " ", "\t" >>, Toys, << " " >> \o Toys \o << " ", " " >>,
    << "P", "e", "t", "s" >>, PRIZE_CATEGORIES[9],
    << " " >> \o PRIZE_CATEGORIES[2] \o << "\t" >> }

\* onChange of the new-category input: setNewCategory(e.target.value)
setNewCategory ==
  \E text \in CategoryTexts :
    /\ CanEdit
    /\ sectionOpen[3]
    /\ text # newCategory
    /\ newCategory' = text
    /\ edits' = edits + 1
    /\ UNCHANGED << listVars, createOpen, form, otherValues, categories,
                    addCalls, sectionOpen, fieldErrors, imageFiles,
                    imagePreviews, reading,
                    selectedRegions, dropped, saving, pc, sub, storeVars,
                    histVars, touched, submits >>

\* onValueChange of the category select, whose items are the categories
SetPrizeCategory ==
  \E i \in 1..Len(categories) :
    /\ CanEdit
    /\ sectionOpen[3]
    /\ categories[i] # otherValues.prizeCategory
    /\ otherValues' = [ otherValues EXCEPT !.prizeCategory = categories[i] ]
    /\ Edited
    /\ UNCHANGED << listVars, createOpen, form, uiVars, fieldErrors,
                    imageFiles, imagePreviews, reading, selectedRegions,
                    dropped, saving, pc, sub, storeVars, histVars, submits >>

\* mutant: addCategory without the categories.includes(trimmed) test
addCategory_NoIncludes ==
  /\ CanEdit
  /\ sectionOpen[3]
  /\ addCalls' = addCalls + 1
  /\ edits' = edits + 1
  /\ IF Boolean(trim(newCategory))
     THEN /\ categories' = Append(categories, trim(newCategory))
          /\ otherValues' =
               [ otherValues EXCEPT !.prizeCategory = trim(newCategory) ]
          /\ newCategory' = << >>
          /\ touched' = (submits > 0)
     ELSE UNCHANGED << categories, otherValues, newCategory, touched >>
  /\ UNCHANGED << listVars, createOpen, form, sectionOpen, fieldErrors,
                  imageFiles, imagePreviews, reading, selectedRegions,
                  dropped, saving, pc, sub, storeVars, histVars, submits >>

\* the "+ Add New Type" button, or Enter in the new-category input
addCategory ==
  /\ CanEdit
  /\ sectionOpen[3]
  /\ addCalls' = addCalls + 1
  /\ edits' = edits + 1
  /\ IF Boolean(trim(newCategory)) /\ ~includes(categories, trim(newCategory))
     THEN /\ categories' = Append(categories, trim(newCategory))
          /\ otherValues' =
               [ otherValues EXCEPT !.prizeCategory = trim(newCategory) ]
          /\ newCategory' = << >>
          /\ touched' = (submits > 0)
     ELSE UNCHANGED << categories, otherValues, newCategory, touched >>
  /\ UNCHANGED << listVars, createOpen, form, sectionOpen, fieldErrors,
                  imageFiles, imagePreviews, reading, selectedRegions,
                  dropped, saving, pc, sub, storeVars, histVars, submits >>

\* the header button of a section: setOpen((v) => !v)
toggleSection ==
  \E n \in Sections :
    /\ createOpen
    /\ sectionOpen' = [ sectionOpen EXCEPT ![n] = ~@ ]
    /\ UNCHANGED << listVars, createOpen, form, otherValues, categories,
                    newCategory, addCalls, fieldErrors, imageFiles,
                    imagePreviews, reading, selectedRegions, dropped, saving,
                    pc, sub, storeVars, histVars, touched, submits, edits >>

\* ------------------------------------------------------------ submission
\* mutant: the schema without the min(1) of tags
formSchema_TagsOptional(v) ==
  /\ Len(v.prizeName) >= 1
  /\ Len(v.prizeName) <= MaxPrizeName
  /\ Len(v.quantityAvailable) >= 1
  /\ Len(v.fullDescription) >= 1
  /\ Len(v.fullDescription) <= MaxFullDescription
  /\ Len(v.sponsorId) >= 1
  /\ Len(v.prizeCategory) >= 1
  /\ Len(v.stockDate) >= 1
  /\ Len(v.fulfillmentMethod) >= 1
  /\ Len(v.deliveryTimeline) >= 1
  /\ Len(v.claimWindow) >= 1
  /\ Len(v.eligibleRegions) >= 1
  /\ Len(v.retailValueUSD) >= 1
  /\ Len(v.ageRestriction) >= 1

\* zodResolver(formSchema) on the current values
formSchema(v) ==
  /\ Len(v.prizeName) >= 1
  /\ Len(v.prizeName) <= MaxPrizeName
  /\ Len(v.quantityAvailable) >= 1
  /\ Len(v.fullDescription) >= 1
  /\ Len(v.fullDescription) <= MaxFullDescription
  /\ Len(v.tags) >= 1
  /\ Len(v.sponsorId) >= 1
  /\ Len(v.prizeCategory) >= 1
  /\ Len(v.stockDate) >= 1
  /\ Len(v.fulfillmentMethod) >= 1
  /\ Len(v.deliveryTimeline) >= 1
  /\ Len(v.claimWindow) >= 1
  /\ Len(v.eligibleRegions) >= 1
  /\ Len(v.retailValueUSD) >= 1
  /\ Len(v.ageRestriction) >= 1

\* the values handleSubmit validates and hands to onSubmit
values == form @@ otherValues

\* the values of the last activation of Save
beforeValues == before.form @@ before.otherValues

\* mutant: the Save button is never disabled
SaveDisabled_Never == FALSE

\* <Button type="submit" disabled={saving}>
SaveDisabled == saving

\* mutant: the image precondition is not checked
noImages_Unchecked == FALSE

\* if (imageFiles.length === 0)
noImages == Len(imageFiles) = 0

\* String(s) of a string s
String(s) == s

\* [values.detail1, values.detail2, values.detail3].filter(Boolean)
keywordsOf(v) == SelectSeq(<< v.detail1, v.detail2, v.detail3 >>, Boolean)

\* the CreatePrizeData object onSubmit hands to createPrizeDocument
dataOf(v) ==
  [ prizeName |-> v.prizeName,
    quantityAvailable |-> String(v.quantityAvailable),
    fullDescription |-> v.fullDescription,
    keywords |-> keywordsOf(v),
    tags |-> v.tags,
    sponsorId |-> v.sponsorId,
    prizeCategory |-> v.prizeCategory,
    stockDate |-> v.stockDate,
    fulfillmentMethod |-> v.fulfillmentMethod,
    deliveryTimeline |-> v.deliveryTimeline,
    claimWindow |-> v.claimWindow,
    eligibleRegions |-> v.eligibleRegions,
    retailValueUSD |-> String(v.retailValueUSD),
    breakEvenValue |-> breakEvenOf(v.retailValueUSD),
    ageRestriction |-> v.ageRestriction,
    status |-> "Active" ]

\* getDownloadURL of the n-th object written to storage; the key is
\* prize_database/${Date.now()}_${file.name}, the position in storage
\* standing for the clock
downloadURL(n, file) ==
  "https://storage/prize_database/" \o ToString(n) \o "_" \o file

\* mutant: the thumbnail is the last uploaded image
thumbnailOf_Last(imageUrls) ==
  IF Len(imageUrls) > 0 THEN imageUrls[Len(imageUrls)] ELSE ""

\* imageUrls[0] || ""
thumbnailOf(imageUrls) ==
  IF Len(imageUrls) > 0 /\ imageUrls[1] # "" THEN imageUrls[1] ELSE ""

\* the document createPrizeDocument writes, under the id addDoc gives it
prizeDocOf(data, imageUrls, id) ==
  [ id |-> id,
    prizeName |-> data.prizeName,
    quantityAvailable |-> data.quantityAvailable,
    fullDescription |-> data.fullDescription,
    keywords |-> data.keywords,
    tags |-> data.tags,
    thumbnail |-> thumbnailOf(imageUrls),
    images |-> imageUrls,
    sponsorId |-> data.sponsorId,
    prizeCategory |-> data.prizeCategory,
    stockDate |-> data.stockDate,
    fulfillmentMethod |-> data.fulfillmentMethod,
    deliveryTimeline |-> data.deliveryTimeline,
    claimWindow |-> data.claimWindow,
    eligibleRegions |-> data.eligibleRegions,
    retailValueUSD |-> data.retailValueUSD,
    breakEvenValue |-> data.breakEvenValue,
    ageRestriction |-> data.ageRestriction,
    status |-> data.status ]

Issue(call) == calls' = [ calls EXCEPT ![call] = @ + 1 ]

Range(s) == { s[i] : i \in 1..Len(s) }

\* form.handleSubmit(onSubmit): validation, then onSubmit and
\* createPrizeDocument up to the first network call.  The resolver settles
\* within the task of the submit event, so no other event comes in between.
Submit ==
  /\ createOpen
  /\ ~SaveDisabled
  /\ submits < MaxSubmits
  /\ submits' = submits + 1
  /\ touched' = FALSE
  /\ before' = [ form |-> form, otherValues |-> otherValues,
                 imageFiles |-> imageFiles,
                 selectedRegions |-> selectedRegions,
                 docs |-> Len(prize_database), blobs |-> Len(blobs),
                 sponsorPrizes |-> sponsorPrizes, nextFetch |-> nextFetch ]
  /\ result' = [ state |-> "none", id |-> 0 ]
  /\ fault' = NoFault
  /\ IF ~formSchema(values)
     THEN /\ fieldErrors' = TRUE
          /\ steps' = << "Validating", "Editing" >>
          /\ toasts' = << >>
          /\ calls' = NoCalls
          /\ UNCHANGED << saving, pc, sub >>
     ELSE /\ fieldErrors' = FALSE
          /\ IF noImages
             THEN /\ toasts' = << "Images required" >>
                  /\ steps' = << "Validating", "Editing" >>
                  /\ calls' = NoCalls
                  /\ UNCHANGED << saving, pc, sub >>
             ELSE /\ saving' = TRUE
                  /\ toasts' = << >>
                  /\ sub' = [ values |-> dataOf(values), files |-> imageFiles,
                              urls |-> << >>, id |-> 0 ]
                  /\ IF Len(imageFiles) > 0
                     THEN /\ steps' = << "Validating", "Uploading" >>
                          /\ calls' = [ NoCalls EXCEPT !.uploadBytes = 1 ]
                          /\ pc' = "uploadBytes"
                     ELSE /\ steps' = << "Validating", "Persisting" >>
                          /\ calls' = [ NoCalls EXCEPT !.addDoc = 1 ]
                          /\ pc' = "addDoc"
  /\ UNCHANGED << listVars, createOpen, form, otherValues, uiVars,
                  imageFiles, imagePreviews, reading, selectedRegions,
                  dropped, storeVars, orphans, edits >>

\* mutant: the loop walks the staged files from the last to the first
currentFile_Reversed == sub.files[Len(sub.files) - Len(sub.urls)]

\* the file the loop of createPrizeDocument is at
currentFile == sub.files[Len(sub.urls) + 1]

\* mutant: no finally block, the catch branch leaves saving on
onSubmitCatch_KeepSaving ==
  /\ toasts' = Append(toasts, "Error")
  /\ pc' = "idle"
  /\ steps' = Append(steps, "Editing")
  /\ result' = [ state |-> "rejected", id |-> 0 ]
  /\ orphans' = orphans \cup Range(sub.urls)
  /\ sub' = NoSub
  /\ UNCHANGED << listVars, createOpen, formVars, saving >>

\* mutant: the catch branch calls onCreated as well
onSubmitCatch_Refetch ==
  /\ toasts' = Append(toasts, "Error")
  /\ saving' = FALSE
  /\ pc' = "idle"
  /\ steps' = Append(steps, "Editing")
  /\ result' = [ state |-> "rejected", id |-> 0 ]
  /\ orphans' = orphans \cup Range(sub.urls)
  /\ sub' = NoSub
  /\ fetchPrizes
  /\ UNCHANGED << prizes, mounted, listLog, createOpen, formVars >>

\* onSubmit: catch (err) { toast Error } finally { setSaving(false) }
onSubmitCatch ==
  /\ toasts' = Append(toasts, "Error")
  /\ saving' = FALSE
  /\ pc' = "idle"
  /\ steps' = Append(steps, "Editing")
  /\ result' = [ state |-> "rejected", id |-> 0 ]
  /\ orphans' = orphans \cup Range(sub.urls)
  /\ sub' = NoSub
  /\ UNCHANGED << listVars, createOpen, formVars >>

\* onSubmit's success branch without setSelectedRegions([])
onSubmitSuccess_KeepRegions(id) ==
  /\ toasts' = Append(toasts, "Prize created")
  /\ form' = defaultValues
  /\ otherValues' = defaultOtherValues
  /\ fieldErrors' = FALSE
  /\ imageFiles' = << >>
  /\ imagePreviews' = << >>
  /\ createOpen' = FALSE
  /\ fetchPrizes
  /\ saving' = FALSE
  /\ pc' = "idle"
  /\ steps' = Append(steps, "Done")
  /\ result' = [ state |-> "resolved", id |-> id ]
  /\ sub' = NoSub
  /\ UNCHANGED << prizes, mounted, listLog, reading, dropped, orphans,
                  selectedRegions, uiVars >>

\* onSubmit after createPrizeDocument resolved with id, and its finally
onSubmitSuccess(id) ==
  /\ toasts' = Append(toasts, "Prize created")
  /\ form' = defaultValues
  /\ otherValues' = defaultOtherValues
  /\ fieldErrors' = FALSE
  /\ imageFiles' = << >>
  /\ imagePreviews' = << >>
  /\ selectedRegions' = << >>
  /\ createOpen' = FALSE
  /\ fetchPrizes
  /\ saving' = FALSE
  /\ pc' = "idle"
  /\ steps' = Append(steps, "Done")
  /\ result' = [ state |-> "resolved", id |-> id ]
  /\ sub' = NoSub
  /\ UNCHANGED << prizes, mounted, listLog, reading, dropped, orphans,
                  uiVars >>

\* await uploadBytes(storageRef, file) resolved
UploadBytesOk ==
  /\ pc = "uploadBytes"
  /\ blobs' = Append(blobs, currentFile)
  /\ pc' = "getDownloadURL"
  /\ Issue("getDownloadURL")
  /\ UNCHANGED << listVars, createOpen, formVars, saving, sub,
                  prize_database, sponsorPrizes, toasts, steps, result,
                  before, fault, orphans, touched, submits, edits >>

\* mutant: a failed upload ends the loop and the document is written with
\* the URLs collected so far
UploadBytesFail_Partial ==
  /\ pc = "uploadBytes"
  /\ fault' = [ call |-> "uploadBytes", index |-> Len(sub.urls) ]
  /\ pc' = "addDoc"
  /\ Issue("addDoc")
  /\ steps' = Append(steps, "Persisting")
  /\ UNCHANGED << listVars, createOpen, formVars, saving, sub, storeVars,
                  toasts, result, before, orphans, touched, submits, edits >>

\* await uploadBytes(storageRef, file) rejected
UploadBytesFail ==
  /\ pc = "uploadBytes"
  /\ fault' = [ call |-> "uploadBytes", index |-> Len(sub.urls) ]
  /\ onSubmitCatch
  /\ UNCHANGED << storeVars, calls, before, touched, submits, edits >>

\* mutant: the document insert is issued after the first URL, whatever
\* files remain
GetDownloadURLOk_Early ==
  /\ pc = "getDownloadURL"
  /\ sub' = [ sub EXCEPT
               !.urls = Append(@, downloadURL(Len(blobs), currentFile)) ]
  /\ pc' = "addDoc"
  /\ Issue("addDoc")
  /\ steps' = Append(steps, "Persisting")
  /\ UNCHANGED << listVars, createOpen, formVars, saving, storeVars, toasts,
                  result, before, fault, orphans, touched, submits, edits >>

\* await getDownloadURL(storageRef) resolved: push, then the next file or
\* the document insert
GetDownloadURLOk ==
  /\ pc = "getDownloadURL"
  /\ sub' = [ sub EXCEPT
               !.urls = Append(@, downloadURL(Len(blobs), currentFile)) ]
  /\ IF Len(sub.urls) + 1 < Len(sub.files)
     THEN /\ pc' = "uploadBytes"
          /\ Issue("uploadBytes")
          /\ UNCHANGED steps
     ELSE /\ pc' = "addDoc"
          /\ Issue("addDoc")
          /\ steps' = Append(steps, "Persisting")
  /\ UNCHANGED << listVars, createOpen, formVars, saving, storeVars, toasts,
                  result, before, fault, orphans, touched, submits, edits >>

\* await getDownloadURL(storageRef) rejected
GetDownloadURLFail ==
  /\ pc = "getDownloadURL"
  /\ fault' = [ call |-> "getDownloadURL", index |-> Len(sub.urls) ]
  /\ onSubmitCatch
  /\ UNCHANGED << storeVars, calls, before, touched, submits, edits >>

\* await addDoc(...) resolved: the document exists, updateDoc is issued
AddDocOk ==
  /\ pc = "addDoc"
  /\ prize_database' =
       Append(prize_database,
              prizeDocOf(sub.values, sub.urls, Len(prize_database) + 1))
  /\ sub' = [ sub EXCEPT !.id = Len(prize_database) + 1 ]
  /\ pc' = "updateDoc"
  /\ Issue("updateDoc")
  /\ steps' = Append(steps, "LinkingSponsor")
  /\ UNCHANGED << listVars, createOpen, formVars, saving, blobs,
                  sponsorPrizes, toasts, result, before, fault, orphans,
                  touched, submits, edits >>

\* mutant: the failure path clears the form as the success path does
AddDocFail_Reset ==
  /\ pc = "addDoc"
  /\ fault' = [ call |-> "addDoc", index |-> 0 ]
  /\ toasts' = Append(toasts, "Error")
  /\ saving' = FALSE
  /\ pc' = "idle"
  /\ steps' = Append(steps, "Editing")
  /\ result' = [ state |-> "rejected", id |-> 0 ]
  /\ orphans' = orphans \cup Range(sub.urls)
  /\ sub' = NoSub
  /\ form' = defaultValues
  /\ imageFiles' = << >>
  /\ imagePreviews' = << >>
  /\ selectedRegions' = << >>
  /\ UNCHANGED << otherValues, uiVars,
                  listVars, createOpen, fieldErrors, reading, dropped,
                  storeVars, calls, before, touched, submits, edits >>

\* await addDoc(...) rejected
AddDocFail ==
  /\ pc = "addDoc"
  /\ fault' = [ call |-> "addDoc", index |-> 0 ]
  /\ onSubmitCatch
  /\ UNCHANGED << storeVars, calls, before, touched, submits, edits >>

\* await updateDoc(...) resolved: arrayUnion(docRef.id); return docRef.id
UpdateDocOk ==
  /\ pc = "updateDoc"
  /\ sponsorPrizes' =
       [ sponsorPrizes EXCEPT ![sub.values.sponsorId] = @ \cup {sub.id} ]
  /\ onSubmitSuccess(sub.id)
  /\ UNCHANGED << blobs, prize_database, calls, before, fault, touched,
                  submits, edits >>

\* mutant: the sponsor update is not wrapped in try/catch
UpdateDocFail_Rethrow ==
  /\ pc = "updateDoc"
  /\ fault' = [ call |-> "updateDoc", index |-> 0 ]
  /\ onSubmitCatch
  /\ UNCHANGED << storeVars, calls, before, touched, submits, edits >>

\* await updateDoc(...) rejected: console.warn; return docRef.id
UpdateDocFail ==
  /\ pc = "updateDoc"
  /\ fault' = [ call |-> "updateDoc", index |-> 0 ]
  /\ onSubmitSuccess(sub.id)
  /\ UNCHANGED << storeVars, calls, before, touched, submits, edits >>

\* -------------------------------------------------------- specifications
\* The whole program.
Next ==
  \/ toggleSection
  \/ setNewCategory
  \/ SetPrizeCategory
  \/ addCategory
  \/ Mount
  \/ GetPrizesRead
  \/ GetPrizesResolve
  \/ GetPrizesReject
  \/ OpenModal
  \/ CloseModal
  \/ SetPrizeName
  \/ SetSponsorId
  \/ toggleRegion
  \/ handleImageUpload
  \/ ReaderOnload
  \/ removeImage
  \/ Submit
  \/ UploadBytesOk
  \/ UploadBytesFail
  \/ GetDownloadURLOk
  \/ GetDownloadURLFail
  \/ AddDocOk
  \/ AddDocFail
  \/ UpdateDocOk
  \/ UpdateDocFail

Spec == Init /\ [][Next]_vars

\* The creation pipeline: the form is filled in and submitted.  The list
\* page's getPrizes() calls and the preview reads stay in flight; their
\* settlement writes only loading, prizes and imagePreviews, which no action
\* below reads.
\* The list page is mounted with its first fetch in flight, the modal is open
\* and the user has filled in the fields kept in otherValues; prizeName,
\* sponsorId, the regions and the images are still to come.
InitCreate ==
  /\ createOpen = TRUE
  /\ loading = TRUE
  /\ prizes = << >>
  /\ mounted = TRUE
  /\ fetches = { [ id |-> 1, read |-> FALSE, data |-> << >> ] }
  /\ nextFetch = 1
  /\ form = defaultValues
  /\ otherValues = filledOtherValues
  /\ categories = PRIZE_CATEGORIES
  /\ newCategory = << >>
  /\ addCalls = 0
  /\ sectionOpen = [ n \in Sections |-> TRUE ]
  /\ fieldErrors = FALSE
  /\ imageFiles = << >>
  /\ imagePreviews = << >>
  /\ reading = << >>
  /\ saving = FALSE
  /\ selectedRegions = << >>
  /\ pc = "idle"
  /\ sub = NoSub
  /\ blobs = << >>
  /\ prize_database = << >>
  /\ sponsorPrizes = [ s \in SponsorIds |-> {} ]
  /\ toasts = << >>
  /\ calls = NoCalls
  /\ steps = << >>
  /\ result = [ state |-> "none", id |-> 0 ]
  /\ before = NoBefore
  /\ fault = NoFault
  /\ orphans = {}
  /\ listLog = [ last |-> "none", id |-> 0, resolved |-> 0, shown |-> 0,
               newest |-> 0 ]
  /\ dropped = 0
  /\ touched = FALSE
  /\ submits = 0
  /\ edits = 0

NextCreate ==
  \/ OpenModal
  \/ CloseModal
  \/ SetPrizeName
  \/ SetSponsorId
  \/ toggleRegion
  \/ handleImageUpload
  \/ Submit
  \/ UploadBytesOk
  \/ UploadBytesFail
  \/ GetDownloadURLOk
  \/ GetDownloadURLFail
  \/ AddDocOk
  \/ AddDocFail
  \/ UpdateDocOk
  \/ UpdateDocFail

SpecCreate == InitCreate /\ [][NextCreate]_vars

\* Editing the regions and the staged images, with the preview reads.
NextEdit ==
  \/ Mount
  \/ OpenModal
  \/ CloseModal
  \/ toggleRegion
  \/ handleImageUpload
  \/ ReaderOnload
  \/ removeImage

SpecEdit == Init /\ [][NextEdit]_vars

\* The list page with one creation: the state after the page mounted, the
\* modal was opened and the form filled in or left empty, the mount fetch
\* still in flight; the collection is empty or holds an earlier prize.
existingPrize ==
  prizeDocOf(dataOf([ prizeName |-> "Car", sponsorId |-> "s1",
                       eligibleRegions |-> REGIONS[1] ] @@ filledOtherValues),
             << downloadURL(1, "a.png") >>, 1)

InitList ==
  /\ createOpen = TRUE
  /\ loading = TRUE
  /\ prizes = << >>
  /\ mounted = TRUE
  /\ fetches = { [ id |-> 1, read |-> FALSE, data |-> << >> ] }
  /\ nextFetch = 1
  /\ \E filled \in BOOLEAN :
       /\ form = IF filled
                 THEN [ prizeName |-> "TV", sponsorId |-> "s2",
                        eligibleRegions |-> join(<< REGIONS[1] >>) ]
                 ELSE defaultValues
       /\ selectedRegions = IF filled THEN << REGIONS[1] >> ELSE << >>
       /\ otherValues = IF filled THEN filledOtherValues
                               ELSE defaultOtherValues
  /\ categories = PRIZE_CATEGORIES
  /\ newCategory = << >>
  /\ addCalls = 0
  /\ sectionOpen = [ n \in Sections |-> TRUE ]
  /\ fieldErrors = FALSE
  /\ \E staged \in { << >>, << "a.png" >>, << "b.png", "a.png" >> } :
       /\ imageFiles = staged
       /\ imagePreviews = [ i \in 1..Len(staged) |-> dataURL(staged[i]) ]
  /\ reading = << >>
  /\ saving = FALSE
  /\ pc = "idle"
  /\ sub = NoSub
  /\ \E old \in BOOLEAN :
       /\ blobs = IF old THEN << "a.png" >> ELSE << >>
       /\ prize_database = IF old THEN << existingPrize >> ELSE << >>
       /\ sponsorPrizes = [ s \in SponsorIds |->
                             IF old /\ s = "s1" THEN {1} ELSE {} ]
  /\ toasts = << >>
  /\ calls = NoCalls
  /\ steps = << >>
  /\ result = [ state |-> "none", id |-> 0 ]
  /\ before = NoBefore
  /\ fault = NoFault
  /\ orphans = {}
  /\ listLog = [ last |-> "none", id |-> 0, resolved |-> 0, shown |-> 0,
               newest |-> 0 ]
  /\ dropped = 0
  /\ touched = FALSE
  /\ submits = 0
  /\ edits = 0

NextList ==
  \/ GetPrizesRead
  \/ GetPrizesResolve
  \/ GetPrizesReject
  \/ OpenModal
  \/ CloseModal
  \/ Submit
  \/ UploadBytesOk
  \/ UploadBytesFail
  \/ GetDownloadURLOk
  \/ GetDownloadURLFail
  \/ AddDocOk
  \/ AddDocFail
  \/ UpdateDocOk
  \/ UpdateDocFail

SpecList == InitList /\ [][NextList]_vars

\* ------------------------------------------------------------------------
\* The category list of one session of the modal.
NextCategory ==
  \/ Mount
  \/ OpenModal
  \/ CloseModal
  \/ setNewCategory
  \/ SetPrizeCategory
  \/ addCategory

SpecCategory == Init /\ [][NextCategory]_vars

\* ------------------------------------------------------------------------
\* What a submission makes of the values of the form: the modal is open with
\* one image staged, the user has left the fields in one of the states below,
\* and the network calls of the creation succeed.
MaxCents == 60           \* largest retail value explored, in cents
MaxEmptied == 2          \* how many required fields are left empty at once

filledForm ==
  [ prizeName |-> "TV", sponsorId |-> "s2",
    eligibleRegions |-> join(<< REGIONS[1] >>) ]

\* a string of n copies of c
RECURSIVE repeat(_, _)
repeat(c, n) ==
  IF n = 0 THEN ""
  ELSE IF n % 2 = 0 THEN repeat(c \o c, n \div 2)
  ELSE c \o repeat(c \o c, n \div 2)

\* the text of c cents with two decimal places
priceText(c) ==
  charsOf(c \div 100)
    \o << ".", DigitChars[((c % 100) \div 10) + 1], DigitChars[(c % 10) + 1] >>

DetailTexts == { << >>, << " " >>, << "A" >>, << "C" >> }

RetailTexts ==
  { priceText(c) : c \in 0..MaxCents }
    \cup { << "1", "0", "0", "0" >>, << "2", ".", "5" >>, << "-", "5" >>,
           << "-", "0", ".", "5", "8" >> }

QuantityTexts == { << "3" >>, << "0" >>, << "-", "3" >>, << "1", ".", "5" >> }

PrizeNameTexts ==
  { "TV", repeat("n", MaxPrizeName), repeat("n", MaxPrizeName + 1) }

FullDescriptionTexts ==
  { "Smart TV", repeat("d", MaxFullDescription),
    repeat("d", MaxFullDescription + 1) }

\* the fields formSchema gives min(1)
RequiredFields ==
  { "prizeName", "quantityAvailable", "fullDescription", "tags", "sponsorId",
    "prizeCategory", "stockDate", "fulfillmentMethod", "deliveryTimeline",
    "claimWindow", "eligibleRegions", "retailValueUSD", "ageRestriction" }

\* record r with the fields of E back at their defaults
emptied(r, defaults, E) ==
  [ f \in DOMAIN r |-> IF f \in E THEN defaults[f] ELSE r[f] ]

SectionInputs ==
  { [ n \in Sections |-> TRUE ], [ n \in Sections |-> FALSE ] }
    \cup { [ n \in Sections |-> n # k ] : k \in Sections }

InitValues ==
  /\ createOpen = TRUE
  /\ loading = FALSE
  /\ prizes = << >>
  /\ mounted = TRUE
  /\ fetches = {}
  /\ nextFetch = 1
  /\ \/ \E d1 \in DetailTexts, d2 \in DetailTexts, d3 \in DetailTexts :
          /\ form = filledForm
          /\ otherValues = [ filledOtherValues EXCEPT !.detail1 = d1,
                               !.detail2 = d2, !.detail3 = d3 ]
          /\ sectionOpen = [ n \in Sections |-> TRUE ]
     \/ \E retail \in RetailTexts, quantity \in QuantityTexts :
          /\ form = filledForm
          /\ otherValues = [ filledOtherValues EXCEPT
                               !.retailValueUSD = retail,
                               !.quantityAvailable = quantity ]
          /\ sectionOpen = [ n \in Sections |-> TRUE ]
     \/ \E E \in SUBSET RequiredFields, name \in PrizeNameTexts,
           description \in FullDescriptionTexts, open \in SectionInputs :
          /\ Cardinality(E) <= MaxEmptied
          /\ form = emptied([ filledForm EXCEPT !.prizeName = name ],
                            defaultValues, E)
          /\ otherValues =
               emptied([ filledOtherValues EXCEPT
                           !.fullDescription = description ],
                       defaultOtherValues, E)
          /\ sectionOpen = open
  /\ selectedRegions =
       IF form.eligibleRegions = "" THEN << >> ELSE << REGIONS[1] >>
  /\ categories = PRIZE_CATEGORIES
  /\ newCategory = << >>
  /\ addCalls = 0
  /\ fieldErrors = FALSE
  /\ imageFiles = << "a.png" >>
  /\ imagePreviews = << dataURL("a.png") >>
  /\ reading = << >>
  /\ saving = FALSE
  /\ pc = "idle"
  /\ sub = NoSub
  /\ blobs = << >>
  /\ prize_database = << >>
  /\ sponsorPrizes = [ s \in SponsorIds |-> {} ]
  /\ toasts = << >>
  /\ calls = NoCalls
  /\ steps = << >>
  /\ result = [ state |-> "none", id |-> 0 ]
  /\ before = NoBefore
  /\ fault = NoFault
  /\ orphans = {}
  /\ listLog = [ last |-> "resolved", id |-> 1, resolved |-> 1, shown |-> 1,
               newest |-> 1 ]
  /\ dropped = 0
  /\ touched = FALSE
  /\ submits = 0
  /\ edits = 0

NextValues ==
  \/ Submit
  \/ UploadBytesOk
  \/ GetDownloadURLOk
  \/ AddDocOk
  \/ UpdateDocOk
  \/ UpdateDocFail

SpecValues == InitValues /\ [][NextValues]_vars

\* ------------------------------------------------------------------------
\* Submissions whose network calls settle.  The form is complete, or has
\* tags empty; zero to MaxStaged files are staged; Save is activated and
\* every call of createPrizeDocument resolves or rejects.  A call that was
\* issued settles: weak fairness on the steps that settle the call in flight.
MaxStaged == 3           \* most files staged when Save is activated

StagedInputs ==
  UNION { [ 1..n -> Files ] : n \in 0..MaxStaged }

InitSettle ==
  /\ createOpen = TRUE
  /\ loading = FALSE
  /\ prizes = << >>
  /\ mounted = TRUE
  /\ fetches = {}
  /\ nextFetch = 1
  /\ form = filledForm
  /\ otherValues \in { filledOtherValues,
                       [ filledOtherValues EXCEPT !.tags = "" ] }
  /\ selectedRegions = << REGIONS[1] >>
  /\ categories = PRIZE_CATEGORIES
  /\ newCategory = << >>
  /\ addCalls = 0
  /\ sectionOpen = [ n \in Sections |-> TRUE ]
  /\ fieldErrors = FALSE
  /\ imageFiles \in StagedInputs
  /\ imagePreviews = [ i \in 1..Len(imageFiles) |-> dataURL(imageFiles[i]) ]
  /\ reading = << >>
  /\ saving = FALSE
  /\ pc = "idle"
  /\ sub = NoSub
  /\ blobs = << >>
  /\ prize_database = << >>
  /\ sponsorPrizes = [ s \in SponsorIds |-> {} ]
  /\ toasts = << >>
  /\ calls = NoCalls
  /\ steps = << >>
  /\ result = [ state |-> "none", id |-> 0 ]
  /\ before = NoBefore
  /\ fault = NoFault
  /\ orphans = {}
  /\ listLog = [ last |-> "resolved", id |-> 1, resolved |-> 1, shown |-> 1,
               newest |-> 1 ]
  /\ dropped = 0
  /\ touched = FALSE
  /\ submits = 0
  /\ edits = 0

\* the call in flight resolves or rejects
NetworkSettles ==
  \/ UploadBytesOk
  \/ UploadBytesFail
  \/ GetDownloadURLOk
  \/ GetDownloadURLFail
  \/ AddDocOk
  \/ AddDocFail
  \/ UpdateDocOk
  \/ UpdateDocFail

NextSettle ==
  \/ Submit
  \/ UploadBytesOk
  \/ UploadBytesFail
  \/ GetDownloadURLOk
  \/ GetDownloadURLFail
  \/ AddDocOk
  \/ AddDocFail
  \/ UpdateDocOk
  \/ UpdateDocFail

SpecSettle == InitSettle /\ [][NextSettle]_vars /\ WF_vars(NetworkSettles)

\* ------------------------------------------------------------------------
\* Staged images and their preview reads next to creations whose mandatory
\* calls succeed, within one opening of the modal: the modal is open on a form
\* the user has filled, the mount fetch has settled on an empty collection.
InitReads ==
  /\ createOpen = TRUE
  /\ loading = FALSE
  /\ prizes = << >>
  /\ mounted = TRUE
  /\ fetches = {}
  /\ nextFetch = 1
  /\ form = [ prizeName |-> "TV", sponsorId |-> "s2",
              eligibleRegions |-> join(<< REGIONS[1] >>) ]
  /\ selectedRegions = << REGIONS[1] >>
  /\ otherValues = filledOtherValues
  /\ categories = PRIZE_CATEGORIES
  /\ newCategory = << >>
  /\ addCalls = 0
  /\ sectionOpen = [ n \in Sections |-> TRUE ]
  /\ fieldErrors = FALSE
  /\ imageFiles = << >>
  /\ imagePreviews = << >>
  /\ reading = << >>
  /\ saving = FALSE
  /\ pc = "idle"
  /\ sub = NoSub
  /\ blobs = << >>
  /\ prize_database = << >>
  /\ sponsorPrizes = [ s \in SponsorIds |-> {} ]
  /\ toasts = << >>
  /\ calls = NoCalls
  /\ steps = << >>
  /\ result = [ state |-> "none", id |-> 0 ]
  /\ before = NoBefore
  /\ fault = NoFault
  /\ orphans = {}
  /\ listLog = [ last |-> "resolved", id |-> 1, resolved |-> 1, shown |-> 1,
               newest |-> 1 ]
  /\ dropped = 0
  /\ touched = FALSE
  /\ submits = 0
  /\ edits = 0

NextReads ==
  \/ CloseModal
  \/ handleImageUpload
  \/ ReaderOnload
  \/ Submit
  \/ UploadBytesOk
  \/ GetDownloadURLOk
  \/ AddDocOk
  \/ UpdateDocOk
  \/ UpdateDocFail

SpecReads == InitReads /\ [][NextReads]_vars

\* ------------------------------------------------------------ properties
Last(s) == s[Len(s)]

UploadFaults == { "uploadBytes", "getDownloadURL" }

\* C1: when uploadBytes or getDownloadURL fails at some index of the staged
\* files, the submission is rejected, no addDoc and no updateDoc call is
\* issued for it, the collection and the sponsors are as they were when Save
\* was activated, and no document of the collection ever lists a URL that a
\* failed submission had resolved.
C1_FailedUploadWritesNothing ==
  /\ fault.call \in UploadFaults =>
       /\ result.state = "rejected"
       /\ pc = "idle"
       /\ calls.addDoc = 0
       /\ calls.updateDoc = 0
       /\ Len(prize_database) = before.docs
       /\ sponsorPrizes = before.sponsorPrizes
  /\ \A i \in 1..Len(prize_database) :
       Range(prize_database[i].images) \cap orphans = {}

\* an upload failed after an earlier file of the same submission was uploaded
C1_Witness ==
  /\ fault.call \in UploadFaults
  /\ fault.index >= 1
  /\ orphans # {}
  /\ Len(blobs) > before.blobs

\* C2: when updateDoc fails after addDoc succeeded, the document stays in the
\* collection, createPrizeDocument resolves with its id and onSubmit takes
\* the success path: success toast, form, files, previews and regions
\* cleared, modal closed, a list fetch started, saving off.
C2_SponsorLinkFailureStillDone ==
  [][ (pc = "updateDoc" /\ fault'.call = "updateDoc") =>
        /\ prize_database' = prize_database
        /\ Len(prize_database') = before.docs + 1
        /\ prize_database'[sub.id].id = sub.id
        /\ result' = [ state |-> "resolved", id |-> sub.id ]
        /\ toasts' = << "Prize created" >>
        /\ Last(steps') = "Done"
        /\ form' = defaultValues
        /\ imageFiles' = << >>
        /\ imagePreviews' = << >>
        /\ selectedRegions' = << >>
        /\ createOpen' = FALSE
        /\ nextFetch' = nextFetch + 1
        /\ loading' = TRUE
        /\ saving' = FALSE
        /\ pc' = "idle" ]_vars

\* the sponsor update failed: the prize exists and is not linked
C2_Witness ==
  /\ fault.call = "updateDoc"
  /\ result.state = "resolved"
  /\ result.id \notin sponsorPrizes[before.form.sponsorId]
  /\ Len(prize_database) = before.docs + 1

C4_NoImagesNoCalls ==
  /\ (steps # << >> /\ formSchema(beforeValues)
        /\ Len(before.imageFiles) = 0) =>
       /\ toasts = << "Images required" >>
       /\ steps = << "Validating", "Editing" >>
       /\ ~saving
       /\ pc = "idle"
       /\ calls = NoCalls
       /\ result.state = "none"
       /\ Len(blobs) = before.blobs
       /\ Len(prize_database) = before.docs
       /\ sponsorPrizes = before.sponsorPrizes
       /\ nextFetch = before.nextFetch
  /\ toasts = << "Images required" >> =>
       /\ formSchema(beforeValues)
       /\ Len(before.imageFiles) = 0

\* Save was activated on a valid form without images
C4_Witness ==
  /\ toasts = << "Images required" >>
  /\ formSchema(beforeValues)
  /\ Len(before.imageFiles) = 0

\* C5: a submission of a valid form with n staged images (1 <= n <= 4) in
\* which no call failed has inserted exactly one document; its images are the
\* URLs of the n staged files in staged order, its thumbnail is images[0],
\* its status is "Active", and the prizesCreation of the form's sponsor
\* holds its id.
C5_SuccessfulRun ==
  (result.state = "resolved" /\ fault.call = "none") =>
    LET n == Len(before.imageFiles)
        d == prize_database[result.id]
    IN /\ n \in 1..MaxImages
       /\ formSchema(beforeValues)
       /\ calls.addDoc = 1
       /\ Len(prize_database) = before.docs + 1
       /\ result.id = before.docs + 1
       /\ d.id = result.id
       /\ Len(d.images) = n
       /\ \A i \in 1..n :
            d.images[i] = downloadURL(before.blobs + i, before.imageFiles[i])
       /\ d.thumbnail = d.images[1]
       /\ d.status = "Active"
       /\ d.sponsorId = before.form.sponsorId
       /\ result.id \in sponsorPrizes[before.form.sponsorId]

\* a run with two different staged files went through
C5_Witness ==
  /\ result.state = "resolved"
  /\ fault.call = "none"
  /\ Len(before.imageFiles) = 2
  /\ before.imageFiles[1] # before.imageFiles[2]

StepPaths ==
  { << >>,
    << "Validating", "Editing" >>,
    << "Validating", "Uploading" >>,
    << "Validating", "Uploading", "Editing" >>,
    << "Validating", "Uploading", "Persisting" >>,
    << "Validating", "Uploading", "Persisting", "Editing" >>,
    << "Validating", "Uploading", "Persisting", "LinkingSponsor" >>,
    << "Validating", "Uploading", "Persisting", "LinkingSponsor", "Done" >> }

\* C6: the steps of a submission follow Validating, Uploading, Persisting,
\* LinkingSponsor, Done; addDoc is issued only when every staged file has
\* been uploaded and its URL resolved, updateDoc only when the document is
\* in the collection, Done only after that, and a failed validation, upload
\* or insert ends in Editing.
C6_StepOrder ==
  /\ steps \in StepPaths
  /\ pc \in { "uploadBytes", "getDownloadURL" } => Last(steps) = "Uploading"
  /\ pc = "addDoc" => Last(steps) = "Persisting"
  /\ pc = "updateDoc" => Last(steps) = "LinkingSponsor"
  /\ calls.addDoc > 0 =>
       /\ Len(blobs) = before.blobs + Len(before.imageFiles)
       /\ calls.uploadBytes = Len(before.imageFiles)
       /\ calls.getDownloadURL = Len(before.imageFiles)
       /\ fault.call \notin UploadFaults
  /\ calls.updateDoc > 0 => Len(prize_database) = before.docs + 1
  /\ (steps # << >> /\ Last(steps) = "Done") =>
       /\ Len(prize_database) = before.docs + 1
       /\ result.state = "resolved"
  /\ fault.call \in UploadFaults \cup { "addDoc" } =>
       /\ Last(steps) = "Editing"
       /\ pc = "idle"
  /\ (steps # << >> /\ ~formSchema(beforeValues)) =>
       /\ steps = << "Validating", "Editing" >>
       /\ calls = NoCalls

\* a submission with several files went all the way to Done
C6_Witness ==
  /\ steps # << >>
  /\ Last(steps) = "Done"
  /\ Len(before.imageFiles) >= 2

\* C7: while a submission is in flight the saving flag is on and Save cannot
\* be activated again, so no second sequence starts before the first
\* settles and a submission adds at most one document.
C7_OneSubmissionInFlight ==
  /\ pc # "idle" <=> saving
  /\ pc # "idle" => ~ENABLED Submit
  /\ Len(prize_database) <= before.docs + 1
  /\ Len(prize_database) <= submits

\* a submission is in flight with the modal open and Save pressed again
\* being within the explored activations
C7_Witness ==
  /\ pc = "addDoc"
  /\ saving
  /\ createOpen
  /\ submits < MaxSubmits

twice(r) == toggleRegionNext(toggleRegionNext(selectedRegions, r), r)

RejectStep == listLog' # listLog /\ listLog'.last = "rejected"

\* C9 as stated: after any failed fetch the list is empty, the loading
\* indicator is off and no fetch has been started by the failure.
C9_AsStated ==
  [][ RejectStep =>
        /\ prizes' = << >>
        /\ loading' = FALSE
        /\ nextFetch' = nextFetch ]_vars

\* C9, amended: a failed fetch, the mount fetch or a re-fetch, leaves the
\* rows shown as they were before it failed (the empty list when no fetch
\* has resolved yet), turns the loading indicator off and starts no fetch.
C9_FailedFetchKeepsList ==
  /\ [][ RejectStep =>
           /\ prizes' = prizes
           /\ loading' = FALSE
           /\ nextFetch' = nextFetch
           /\ fetches' \subseteq fetches ]_vars
  /\ [](listLog.resolved = 0 => prizes = << >>)

\* the re-fetch started by a creation failed while rows were shown
C9_Witness ==
  /\ listLog.last = "rejected"
  /\ listLog.id = 2
  /\ prizes # << >>
  /\ ~loading
  /\ result.state = "resolved"

\* C10: the staged files number 0..4 in every state; handleImageUpload with
\* k files on m staged ones yields the m old files followed by the first
\* min(k, 4 - m) new ones in input order, min(4, m + k) in all, and shows no
\* toast.
C10_StagedImagesCap ==
  /\ [](Len(imageFiles) \in 0..MaxImages)
  /\ [](\A files \in FileLists :
          LET m == Len(imageFiles)
              k == Len(files)
              r == imageFiles \o newFilesOf(imageFiles, files)
          IN /\ Len(r) = Min(MaxImages, m + k)
             /\ SubSeq(r, 1, m) = imageFiles
             /\ \A j \in 1..Min(k, MaxImages - m) : r[m + j] = files[j])
  /\ [][ Len(imageFiles') > Len(imageFiles) =>
           /\ toasts' = toasts
           /\ \E files \in FileLists :
                /\ imageFiles' =
                     imageFiles \o
                       SubSeq(files, 1,
                              Min(Len(files), MaxImages - Len(imageFiles)))
                /\ dropped' =
                     Len(files) - Min(Len(files), MaxImages - Len(imageFiles))
         ]_vars

\* more files were attached than slots were left: the excess was dropped
C10_Witness ==
  /\ dropped > 0
  /\ Len(imageFiles) = MaxImages

\* C11: when a submission reaches Done the resulting state has every form
\* field at its default, no staged file, no preview, no selected region, the
\* modal closed, a list re-fetch started and the success notification shown;
\* and as long as the user changes nothing afterwards the form, the staged
\* files, the previews and the regions stay that way, also when a preview
\* read started by handleImageUpload completes after the submission.
C11_AsStated ==
  [][ /\ (steps' # steps /\ Last(steps') = "Done")
        => /\ form' = defaultValues
           /\ imageFiles' = << >>
           /\ imagePreviews' = << >>
           /\ selectedRegions' = << >>
           /\ createOpen' = FALSE
           /\ nextFetch' = nextFetch + 1
           /\ \E f \in fetches' : f.id = nextFetch'
           /\ toasts' = << "Prize created" >>
      /\ (steps # << >> /\ Last(steps) = "Done" /\ steps' = steps
            /\ ~touched /\ ~touched')
        => /\ form' = defaultValues
           /\ imageFiles' = << >>
           /\ imagePreviews' = << >>
           /\ selectedRegions' = << >> ]_vars


\* C12: in every reachable state the eligibleRegions field is the selected
\* regions joined with ", " (the empty string for the empty selection), also
\* after the reset of a successful submit and after a failed submit; so the
\* eligibleRegions of a submission that passed validation, and of every
\* document written, is never empty.
C12_RegionsProjection ==
  /\ form.eligibleRegions = join(selectedRegions)
  /\ (selectedRegions = << >>) <=> (form.eligibleRegions = "")
  /\ pc # "idle" => sub.values.eligibleRegions # ""
  /\ \A i \in 1..Len(prize_database) : prize_database[i].eligibleRegions # ""

C12_Witness ==
  /\ steps # << >>
  /\ Last(steps) = "Done"
  /\ Len(before.selectedRegions) > 0
  /\ selectedRegions = << >>
  /\ form.eligibleRegions = ""
  /\ Len(prize_database) > 0

\* t is s without its leading and trailing white space
isTrimOf(t, s) ==
  \E a \in 0..Len(s), b \in 0..Len(s) :
    /\ a <= b
    /\ t = SubSeq(s, a + 1, b)
    /\ \A k \in 1..a : s[k] \in WhiteSpace
    /\ \A k \in (b + 1)..Len(s) : s[k] \in WhiteSpace
    /\ Len(t) > 0 => (t[1] \notin WhiteSpace /\ t[Len(t)] \notin WhiteSpace)

isPrefix(s, t) == Len(s) <= Len(t) /\ s = SubSeq(t, 1, Len(s))

\* C13: a call of addCategory whose input is empty after trimming, or whose
\* trimmed input is already in the category list, leaves the list, the
\* selected prizeCategory and the input text as they are; any other call
\* appends exactly the trimmed input at the end.  So the list never holds an
\* entry twice and never loses or reorders an entry.
C13_AddCategory ==
  /\ [][ addCalls' # addCalls =>
           \E t \in { trim(newCategory) } :
             /\ isTrimOf(t, newCategory)
             /\ IF Len(t) = 0 \/ includes(categories, t)
                THEN /\ categories' = categories
                     /\ otherValues' = otherValues
                     /\ newCategory' = newCategory
                ELSE categories' = Append(categories, t) ]_vars
  /\ [][ isPrefix(categories, categories') ]_vars
  /\ [](\A i, j \in 1..Len(categories) :
          categories[i] = categories[j] => i = j)
  /\ [](isPrefix(PRIZE_CATEGORIES, categories))

C13_Witness ==
  /\ addCalls = 2
  /\ categories = Append(PRIZE_CATEGORIES, Toys)
  /\ newCategory = << " " >> \o Toys \o << " ", " " >>

\* the document the last submission wrote
created == prize_database[result.id]

\* a text with a character that is not white space
notBlank(text) == \E i \in 1..Len(text) : text[i] \notin WhiteSpace

\* C14: for every triple of detail inputs the persisted keywords are exactly
\* the entries that are neither empty nor blank (white space only), in slot
\* order, so at most 3.
C14_AsStated ==
  result.state = "resolved" =>
    /\ created.keywords =
         SelectSeq(<< before.otherValues.detail1, before.otherValues.detail2,
                      before.otherValues.detail3 >>, notBlank)
    /\ Len(created.keywords) <= 3

\* a decimal text without sign and with at most two decimal places
isPrice(text) ==
  /\ isDecimal(text)
  /\ text[1] # "-"
  /\ Len(text) - pointOf(text) <= 2

\* the cents a price text spells
centsOf(text) ==
  LET decimals == SubSeq(text, pointOf(text) + 1, Len(text))
  IN  100 * decimalOf(SubSeq(text, 1, pointOf(text) - 1))
        + decimalOf(decimals) * pow10(2 - Len(decimals))

\* C15: for every retail value v >= 0 with at most two decimal places the
\* breakEvenValue of the document is v * 0.25 rounded half-up to two decimal
\* places (a quarter of the cents, a half going up, as a number of hundredths),
\* computed from the submitted retailValueUSD, and it is the value the
\* break-even preview shows for the same input.
C15_AsStated ==
  (result.state = "resolved" /\ isPrice(before.otherValues.retailValueUSD)) =>
    /\ created.breakEvenValue =
         quotientOf(FALSE,
                    (2 * centsOf(before.otherValues.retailValueUSD) + 4)
                      \div 8,
                    100)
    /\ toFixed2(created.breakEvenValue) =
         breakEvenPreview(before.otherValues.retailValueUSD)

isNegative(text) == Len(text) > 0 /\ text[1] = "-"

\* C16: every document the pipeline persisted has a retailValueUSD that
\* spells a non-negative decimal and a quantityAvailable that spells a
\* non-negative integer; a submission with a negative retail value or
\* quantity is rejected by validation.
C16_AsStated ==
  /\ \A i \in 1..Len(prize_database) :
       /\ isDecimal(prize_database[i].retailValueUSD)
       /\ ~isNegative(prize_database[i].retailValueUSD)
       /\ Len(prize_database[i].quantityAvailable) > 0
       /\ \A k \in 1..Len(prize_database[i].quantityAvailable) :
            isDigit(prize_database[i].quantityAvailable[k])
  /\ (submits > 0 /\ (\/ isNegative(before.otherValues.retailValueUSD)
                      \/ isNegative(before.otherValues.quantityAvailable))) =>
       /\ steps = << "Validating", "Editing" >>
       /\ fieldErrors
       /\ calls = NoCalls

\* C17: when Save is activated while a required field is empty or prizeName
\* or fullDescription is longer than its bound, the submission stays in
\* Editing with the field messages shown: onSubmit is not run (no toast, saving
\* off) and no upload, insert or sponsor update is issued or written, whichever
\* sections are open.
C17_InvalidFormNoCalls ==
  (submits > 0
     /\ (\/ \E f \in RequiredFields : Len(beforeValues[f]) = 0
         \/ Len(beforeValues.prizeName) > MaxPrizeName
         \/ Len(beforeValues.fullDescription) > MaxFullDescription)) =>
    /\ steps = << "Validating", "Editing" >>
    /\ fieldErrors
    /\ toasts = << >>
    /\ ~saving
    /\ pc = "idle"
    /\ calls = NoCalls
    /\ result.state = "none"
    /\ Len(blobs) = before.blobs
    /\ Len(prize_database) = before.docs
    /\ sponsorPrizes = before.sponsorPrizes
    /\ nextFetch = before.nextFetch

\* Save was activated with only tags empty and every section closed
C17_Witness ==
  /\ submits > 0
  /\ before.form = filledForm
  /\ before.otherValues = [ filledOtherValues EXCEPT !.tags = "" ]
  /\ \A n \in Sections : ~sectionOpen[n]
  /\ steps = << "Validating", "Editing" >>

\* C18: a creation that reached Done, with or without a failed sponsor
\* update, has started exactly one fetch of the prize list, which leaves the
\* list loading; a submission that failed validation, the image precondition,
\* an upload or the insert, or that is still running, has started none.
C18_RefetchOnDoneOnly ==
  /\ steps # << >> =>
       IF Last(steps) = "Done"
       THEN /\ nextFetch = before.nextFetch + 1
            /\ \E f \in fetches : f.id = nextFetch /\ ~f.read
            /\ loading
       ELSE nextFetch = before.nextFetch
  /\ fault.call = "updateDoc" => (steps # << >> /\ Last(steps) = "Done")
  /\ (result.state = "rejected" \/ steps = << "Validating", "Editing" >>) =>
       nextFetch = before.nextFetch

\* a creation whose sponsor update failed started the fetch
C18_Witness ==
  /\ fault.call = "updateDoc"
  /\ result.state = "resolved"
  /\ nextFetch = before.nextFetch + 1

\* the uploads of the running submission that were started and the ones
\* whose URL was resolved
uploadsStarted == Len(blobs) - before.blobs + (IF pc = "uploadBytes" THEN 1 ELSE 0)
urlsResolved == Len(sub.urls)

\* C19: within one submission the uploads run one at a time in the order of
\* the staged files: upload i+1 is started only when the URL of file i was
\* resolved, at most one upload or URL request is unsettled, the store
\* receives the files in staged order, and the document created lists the
\* URLs in that order.
C19_SequentialUploads ==
  /\ pc # "idle" =>
       /\ sub.files = before.imageFiles
       /\ urlsResolved <= Len(sub.files)
       /\ uploadsStarted \in { urlsResolved, urlsResolved + 1 }
       /\ uploadsStarted = urlsResolved + 1 <=> pc \in { "uploadBytes", "getDownloadURL" }
       /\ calls.uploadBytes = uploadsStarted
       /\ calls.getDownloadURL =
            urlsResolved + (IF pc = "getDownloadURL" THEN 1 ELSE 0)
       /\ pc \in { "addDoc", "updateDoc" } => urlsResolved = Len(sub.files)
       /\ \A i \in 1..(Len(blobs) - before.blobs) :
            blobs[before.blobs + i] = sub.files[i]
       /\ \A i \in 1..urlsResolved :
            sub.urls[i] = downloadURL(before.blobs + i, sub.files[i])
  /\ result.state = "resolved" =>
       created.images = [ i \in 1..Len(before.imageFiles) |->
                            downloadURL(before.blobs + i, before.imageFiles[i]) ]

\* the second of two different files is being uploaded, the URL of the first
\* is resolved
C19_Witness ==
  /\ pc = "uploadBytes"
  /\ Len(sub.files) >= 2
  /\ sub.files[1] # sub.files[2]
  /\ urlsResolved = 1
  /\ calls.uploadBytes = 2

\* a submission passed validation and the image precondition and has not
\* settled
inFlight == steps # << >> /\ Last(steps) \notin { "Editing", "Done" }

passed == formSchema(beforeValues) /\ Len(before.imageFiles) > 0

C20_Saving ==
  /\ saving <=> inFlight
  /\ steps # << >> => (passed <=> steps # << "Validating", "Editing" >>)
  /\ saving => passed /\ toasts = << >>
  /\ (steps # << >> /\ ~passed) => calls = NoCalls /\ Len(toasts) <= 1
  /\ result.state = "resolved" =>
       /\ toasts = << "Prize created" >>
       /\ fault.call \in { "none", "updateDoc" }
  /\ result.state = "rejected" =>
       /\ toasts = << "Error" >>
       /\ fault.call \in { "uploadBytes", "getDownloadURL", "addDoc" }
  /\ fault.call \in { "uploadBytes", "getDownloadURL", "addDoc" } =>
       result.state = "rejected"
  /\ fault.call = "updateDoc" => result.state = "resolved"

settled == ~saving /\ result.state \in { "resolved", "rejected" }

\* C20: saving is on exactly while a submission that passed validation and
\* the image precondition has not settled; when the call in flight always
\* settles, saving goes off again, after success, after a failed upload and
\* after a failed insert, with exactly one toast shown for the submission
\* ("Prize created" or "Error"), a failed sponsor update adding none.
C20_SavingSettles ==
  /\ []C20_Saving
  /\ saving ~> (settled /\ Len(toasts) = 1)

\* a submission of two files whose second upload failed has settled with
\* saving off and the one "Error" toast
C20_Witness ==
  /\ fault = [ call |-> "uploadBytes", index |-> 1 ]
  /\ ~saving
  /\ toasts = << "Error" >>
  /\ Len(before.imageFiles) >= 2

\* C21 as stated: whenever no preview read is pending, the previews are as
\* many as the staged files and preview i is the preview of staged file i
\* (so the "Current Thumbnail" shows the file uploaded first and the X of
\* preview i removes file i), whatever the order in which handleImageUpload,
\* removeImage and the reader.onload callbacks ran.
C21_AsStated ==
  reading = << >> =>
    /\ Len(imagePreviews) = Len(imageFiles)
    /\ \A i \in 1..Len(imageFiles) : imagePreviews[i] = dataURL(imageFiles[i])

\* C22 as stated: the rows shown are those of the most recently started
\* fetch that resolved, at every moment and so also once every fetch has
\* settled (a response of an earlier fetch arriving later does not replace
\* them), and the loading indicator is off only when no fetch is in flight.
C22_AsStated ==
  /\ listLog.shown = listLog.newest
  /\ ~loading => fetches = {}

====
